---- MODULE Spec2Model ----
(***************************************************************************)
(* Model of the transition engine of src/transition.go: the StateMachine   *)
(* methods Do, log and AvailableTriggers acting on entities that embed     *)
(* Transition, a trigger table returned by Stater.Triggers(), the          *)
(* persisted state column and the StateMachineLog table.                   *)
(*                                                                         *)
(* A Go string is a sequence of one-character strings, so that             *)
(* strings.Split is computed and not assumed.  Trigger names are map keys  *)
(* that are never split and stay TLA+ strings.                             *)
(***************************************************************************)
EXTENDS Integers, Sequences, FiniteSets, TLC

VARIABLES triggers, State, dbState, smlog, last, frames, initial

vars == <<triggers, State, dbState, smlog, last, frames, initial>>

\* ---------------------------------------------------------------- bounds
MaxSources == 2
MaxLog == 2

\* ------------------------------------------------------- input universes
Comma == ","
StateNames == {<<"A">>, <<"B">>}
TriggerNames == {"pay", "ship"}
EntityIds == {1, 2}
UserIds == {7}
HookErrors == {"hook failed"}
DbErrors == {"db failed"}
Procs == {1, 2}

\* ---------------------------------------------------------------- errors
\* A Go error value: the format string of its message and the arguments.
NoArgs == <<>>
Nil == [format |-> "", args |-> NoArgs]
ErrorsNew(format, args) == [format |-> format, args |-> args]
HookError(e) == ErrorsNew(e, NoArgs)

\* ------------------------------------------------------------ type names
StructName(e) == "Order"

\* ----------------------------------------------------------- strings.Split
RECURSIVE SplitFrom(_, _, _, _, _)
SplitFrom(s, sep, i, cur, acc) ==
  IF i > Len(s) THEN Append(acc, cur)
  ELSE IF s[i] = sep THEN SplitFrom(s, sep, i + 1, <<>>, Append(acc, cur))
  ELSE SplitFrom(s, sep, i + 1, Append(cur, s[i]), acc)

Split(s, sep) == SplitFrom(s, sep, 1, <<>>, <<>>)

\* The comma-separated strings a table writes as "source": the state names
\* of every list of one to MaxSources states, joined by commas.
RECURSIVE Join(_, _)
Join(list, sep) ==
  IF Len(list) = 1 THEN Head(list)
  ELSE Head(list) \o <<sep>> \o Join(Tail(list), sep)

StateLists == UNION {[1..n -> StateNames] : n \in 1..MaxSources}

SourceStrings == {Join(l, Comma) : l \in StateLists}

\* strings.Split(source, ",") of the source strings of the tables, computed
\* once for each of them.
SplitTable == [s \in SourceStrings |-> Split(s, Comma)]

SplitSource(source) ==
  IF source \in SourceStrings THEN SplitTable[source] ELSE Split(source, Comma)

\* ---------------------------------------------------------- trigger table
\* One entry of Stater.Triggers(): the "source" and "dest" strings and, for
\* "condition", "before" and "after", whether the entry holds a function
\* (TRUE) or nil (FALSE).
Configs ==
  [source : SourceStrings, dest : StateNames,
   condition : BOOLEAN, before : BOOLEAN, after : BOOLEAN]

\* Every table over the trigger names, the empty one included.
AllTriggerTables == UNION {[D -> Configs] : D \in SUBSET TriggerNames}

\* The tables Do is exercised on declare one trigger, "pay", with any
\* configuration; "ship" is then a name the table does not hold.
TriggerTables == [{"pay"} -> Configs]

\* Tables whose "dest" may also be a name States() does not list: nothing in
\* the engine compares a table with States().
UndeclaredNames == {<<"C">>}

WideConfigs ==
  [source : SourceStrings, dest : StateNames \cup UndeclaredNames,
   condition : BOOLEAN, before : BOOLEAN, after : BOOLEAN]

WideTables == [{"pay"} -> WideConfigs]

\* --------------------------------------------------- outcomes of the calls
\* What the functions of the table and the gorm handle return during one Do:
\* the condition's bool, and the errors of before, Update, after and Create.
\* The call right after a failing step is not made, so its result is left
\* at its zero value.
HookResults == {Nil} \cup {HookError(e) : e \in HookErrors}
DbResults == {Nil} \cup {HookError(e) : e \in DbErrors}

AllOutcomes ==
  [condition : BOOLEAN, before : HookResults, update : DbResults,
   after : HookResults, create : DbResults]

Outcomes ==
  {o \in AllOutcomes :
     /\ (~o.condition => o.before = Nil)
     /\ (o.before # Nil => o.update = Nil)
     /\ (o.update # Nil => o.after = Nil)
     /\ (o.after # Nil => o.create = Nil)}

AllSucceed ==
  [condition |-> TRUE, before |-> Nil, update |-> Nil, after |-> Nil,
   create |-> Nil]

\* The outcomes a Do of this trigger can observe on this table: a function
\* the entry does not hold returns nothing.
OutcomesFor(tbl, trigger) ==
  IF trigger \notin DOMAIN tbl THEN {AllSucceed}
  ELSE {o \in Outcomes :
          /\ (~tbl[trigger].condition => o.condition)
          /\ (~tbl[trigger].before => o.before = Nil)
          /\ (~tbl[trigger].after => o.after = Nil)}

\* ------------------------------------------------------------------- Do
\* The result of a Do call: the returned error, the entity's in-memory and
\* persisted state, the log table and the calls made, in order.
DoReturn(err, st, db, lg, steps) ==
  [err |-> err, State |-> st, dbState |-> db, smlog |-> lg, steps |-> steps]

\* Variant: canDo starts out true.
CanDo_InitTrue(source, currentState) == TRUE

\* Variant: canDo is assigned the comparison on every iteration, so it is
\* left holding the comparison with the last piece.
CanDo_LastPieceOnly(source, currentState) ==
  LET pieces == SplitSource(source)
  IN  pieces[Len(pieces)] = currentState

\* canDo after the loop over strings.Split(source, ",").
CanDo(source, currentState) ==
  LET pieces == SplitSource(source)
  IN  \E i \in 1..Len(pieces) : pieces[i] = currentState

\* The loop variable src after the loop: the range assigns it on every
\* iteration, so it is left holding the last piece.
SrcAfterLoop(source, currentState) ==
  LET pieces == SplitSource(source)
  IN  pieces[Len(pieces)]

\* Variant: the record takes its operator from the entity's id.
StateMachineLog_OperatorFromEntity(e, trigger, source, dest, userInfoId) ==
  [ObjectId |-> e, ObjectStruct |-> StructName(e), Trigger |-> trigger,
   Source |-> source, Dest |-> dest, OperatorId |-> e]

StateMachineLog(e, trigger, source, dest, userInfoId) ==
  [ObjectId |-> e, ObjectStruct |-> StructName(e), Trigger |-> trigger,
   Source |-> source, Dest |-> dest, OperatorId |-> userInfoId]

\* Variant: the record is saved over the latest row of the table.
LogCall_SavesOverLatest(lg, e, trigger, source, dest, userInfoId, createErr) ==
  IF createErr # Nil THEN [err |-> createErr, smlog |-> lg]
  ELSE [err |-> Nil,
        smlog |-> IF lg = <<>>
                  THEN <<StateMachineLog(e, trigger, source, dest, userInfoId)>>
                  ELSE [lg EXCEPT ![Len(lg)] =
                          StateMachineLog(e, trigger, source, dest, userInfoId)]]

\* Variant: the record is inserted although Create failed.
LogCall_InsertedOnError(lg, e, trigger, source, dest, userInfoId, createErr) ==
  [err |-> createErr,
   smlog |-> Append(lg, StateMachineLog(e, trigger, source, dest, userInfoId))]

\* Variant: log drops the error of Create.
LogCall_ErrorDropped(lg, e, trigger, source, dest, userInfoId, createErr) ==
  IF createErr # Nil THEN [err |-> Nil, smlog |-> lg]
  ELSE [err |-> Nil,
        smlog |-> Append(lg, StateMachineLog(e, trigger, source, dest, userInfoId))]

\* sm.log: tx.Create of one record; on error nothing is inserted.
LogCall(lg, e, trigger, source, dest, userInfoId, createErr) ==
  IF createErr # Nil THEN [err |-> createErr, smlog |-> lg]
  ELSE [err |-> Nil,
        smlog |-> Append(lg, StateMachineLog(e, trigger, source, dest, userInfoId))]

\* Variant: the failed lookup returns nil.
ErrUnknownTrigger_Nil(trigger) == Nil

ErrUnknownTrigger(trigger) ==
  ErrorsNew("can not do trigger: %s", <<trigger>>)

ErrInvalidTransition(trigger, currentState) ==
  ErrorsNew("can not do trigger: %s, current state: %s", <<trigger, currentState>>)

\* The lookup of the trigger in the table.
HasTrigger(tbl, trigger) == trigger \in DOMAIN tbl

\* The outcomes a Do of this trigger can observe from this state: a call
\* that fails lookup or source validation calls nothing.
ObservableOutcomes(tbl, trigger, currentState) ==
  IF HasTrigger(tbl, trigger) /\ CanDo(tbl[trigger].source, currentState)
  THEN OutcomesFor(tbl, trigger)
  ELSE {AllSucceed}

\* Variant: the test of the condition's result is inverted.
ConditionRejects_Inverted(conditionFunc, ret) == conditionFunc /\ ret

\* A condition function is set and returns false.
ConditionRejects(conditionFunc, ret) == conditionFunc /\ ~ret

\* Variant: the error of before is dropped.
BeforeFails_Ignored(beforeFunc, err) == FALSE

\* A before (after) function is set and returns an error.
BeforeFails(beforeFunc, err) == beforeFunc /\ err # Nil

AfterFails(afterFunc, err) == afterFunc /\ err # Nil

\* Variant: the column is written although the update failed.
UpdateState_WrittenOnError(db, dest, updateErr) == dest

\* Variant: the update writes nothing.
UpdateState_NotWritten(db, dest, updateErr) == db

\* tx.Model(sm.stater).Update("state", dest): the persisted column after the
\* call; a failed update writes nothing.
UpdateState(db, dest, updateErr) == IF updateErr # Nil THEN db ELSE dest

\* Variant: dest is read from the entry's "source".
DestOf_Source(tbl, trigger) == tbl[trigger].source

\* dest := Triggers()[trigger]["dest"].
DestOf(tbl, trigger) == tbl[trigger].dest

DoCall(tbl, st, db, lg, e, trigger, userInfoId, o) ==
  IF ~HasTrigger(tbl, trigger) THEN
    DoReturn(ErrUnknownTrigger(trigger), st, db, lg, <<>>)
  ELSE
    LET source == tbl[trigger].source
        dest == DestOf(tbl, trigger)
        beforeFunc == tbl[trigger].before
        afterFunc == tbl[trigger].after
        conditionFunc == tbl[trigger].condition
        currentState == st
        src == SrcAfterLoop(source, currentState)
        s1 == IF conditionFunc THEN <<"condition">> ELSE <<>>
        s2 == IF beforeFunc THEN Append(s1, "before") ELSE s1
        s3 == s2 \o <<"SetState", "Update">>
        s4 == IF afterFunc THEN Append(s3, "after") ELSE s3
        s5 == Append(s4, "Create")
        logged == LogCall(lg, e, trigger, src, dest, userInfoId, o.create)
    IN  IF ~CanDo(source, currentState) THEN
          DoReturn(ErrInvalidTransition(trigger, currentState), st, db, lg, <<>>)
        ELSE IF ConditionRejects(conditionFunc, o.condition) THEN
          DoReturn(Nil, st, db, lg, s1)
        ELSE IF BeforeFails(beforeFunc, o.before) THEN
          DoReturn(o.before, st, db, lg, s2)
        ELSE IF o.update # Nil THEN
          DoReturn(o.update, dest, UpdateState(db, dest, o.update), lg, s3)
        ELSE IF AfterFails(afterFunc, o.after) THEN
          DoReturn(o.after, dest, UpdateState(db, dest, o.update), lg, s4)
        ELSE
          DoReturn(logged.err, dest, UpdateState(db, dest, o.update),
                   logged.smlog, s5)

\* ----------------------------------------------------- AvailableTriggers
AvailableTrigger(e, trigger) ==
  [TranslatedTrigger |-> <<StructName(e), ":", trigger>>, Trigger |-> trigger]

\* The inner loop: one entry for every piece of the source equal to the
\* current state.
MatchesOf(e, trigger, source, currentState) ==
  LET hits == SelectSeq(SplitSource(source), LAMBDA p : p = currentState)
  IN  [i \in 1..Len(hits) |-> AvailableTrigger(e, trigger)]

\* The orders in which a range over a Go map may visit its keys.
RangeOrders(keys) ==
  {ord \in [1..Cardinality(keys) -> keys] :
     \A i, j \in 1..Cardinality(keys) : ord[i] = ord[j] => i = j}

RECURSIVE AvailableTriggersIn(_, _, _, _)
AvailableTriggersIn(tbl, e, currentState, ord) ==
  IF ord = <<>> THEN <<>>
  ELSE MatchesOf(e, Head(ord), tbl[Head(ord)].source, currentState)
         \o AvailableTriggersIn(tbl, e, currentState, Tail(ord))

\* ----------------------------------------------------------------- state
\* last: the most recent call that has returned, with the state it started
\* from; none while a Do is in progress.
NoCall ==
  [op |-> "none", entity |-> 0, trigger |-> "", actor |-> 0, out |-> AllSucceed,
   preState |-> <<>>, preDb |-> <<>>, preLog |-> <<>>,
   err |-> Nil, steps |-> <<>>, result |-> <<>>]

\* frames[p]: the Do call caller p has in progress, statement by statement,
\* on the struct of the entity.  pc names the statement the call executes
\* next; seen is currentState; preDb and preLog are the row and the log
\* table as the call found them; out collects what the functions and the
\* handle returned to it; dbBefore is the column as its Update found it.
IdleFrame ==
  [pc |-> "idle", entity |-> 0, trigger |-> "", actor |-> 0,
   seen |-> <<>>, preDb |-> <<>>, preLog |-> <<>>, src |-> <<>>, dest |-> <<>>,
   out |-> AllSucceed, err |-> Nil, steps |-> <<>>, dbBefore |-> <<>>]

\* No Do call is in progress.
Quiet == \A p \in DOMAIN frames : frames[p].pc = "idle"

\* The caller of a single-threaded application.
Main == 1

\* The values an application may pass to SetState: any string.
SetStateArgs == StateNames \cup UndeclaredNames

\* State[p][e]: the State field of the struct caller p holds for entity e,
\* loaded from the row.  initial: the state every entity was created with.
Init ==
  /\ triggers \in TriggerTables
  /\ dbState \in [EntityIds -> StateNames]
  /\ State = [p \in Procs |-> dbState]
  /\ smlog = <<>>
  /\ last = NoCall
  /\ frames = [p \in Procs |-> IdleFrame]
  /\ initial = dbState

AvailableTriggers(e, ord) ==
  /\ last' = [op |-> "AvailableTriggers", entity |-> e, trigger |-> "",
              actor |-> 0, out |-> AllSucceed,
              preState |-> State[Main][e], preDb |-> dbState[e],
              preLog |-> smlog, err |-> Nil, steps |-> <<>>,
              result |-> AvailableTriggersIn(triggers, e, State[Main][e], ord)]
  /\ UNCHANGED <<triggers, State, dbState, smlog, frames, initial>>

\* The application calls the exported SetState on the struct of entity e:
\* the field is assigned; nothing is validated, written or logged.  It is
\* no call of the engine: last forgets the call before it.
SetState(e, state) ==
  /\ State' = [State EXCEPT ![Main][e] = state]
  /\ last' = NoCall
  /\ UNCHANGED <<triggers, dbState, smlog, frames, initial>>

\* ------------------------------------------------ Do, statement by statement
\* The tables two overlapping calls are exercised on: both triggers
\* declared, each from one source state to any dest, with all three
\* functions set or none.
ConcConfigs ==
  {c \in Configs :
     /\ c.source \in StateNames
     /\ c.before = c.condition
     /\ c.after = c.condition}

ConcTables == [TriggerNames -> ConcConfigs]

\* Variant: after is called ahead of the update.
NextStep_AfterFirst(pc) ==
  CASE pc = "condition" -> "before"
    [] pc = "before" -> "after"
    [] pc = "after" -> "setstate"
    [] pc = "setstate" -> "update"
    [] pc = "update" -> "log"
    [] pc = "log" -> "done"

\* The order of the statements of Do after source validation.
NextStep(pc) ==
  CASE pc = "condition" -> "before"
    [] pc = "before" -> "setstate"
    [] pc = "setstate" -> "update"
    [] pc = "update" -> "after"
    [] pc = "after" -> "log"
    [] pc = "log" -> "done"

\* A return statement of Do.
Return(f, err) == [f EXCEPT !.pc = "done", !.err = err]

\* Variant: the update has no WHERE clause and writes every row.
UpdateRow_AllRows(db, e, dest, updateErr) ==
  [x \in DOMAIN db |-> UpdateState(db[x], dest, updateErr)]

\* tx.Model(sm.stater).Update("state", dest) on the table: only the row of
\* the entity is written.
UpdateRow(db, e, dest, updateErr) ==
  [db EXCEPT ![e] = UpdateState(db[e], dest, updateErr)]

\* Caller p calls Do on entity e: lookup, currentState := GetState() and
\* source validation.
Call(p, e, trigger, userInfoId) ==
  /\ frames[p].pc = "idle"
  /\ Len(smlog) < MaxLog
  /\ LET f == [IdleFrame EXCEPT !.entity = e, !.trigger = trigger,
                                !.actor = userInfoId, !.seen = State[p][e],
                                !.preDb = dbState[e], !.preLog = smlog]
     IN  frames' = [frames EXCEPT ![p] =
           IF ~HasTrigger(triggers, trigger) THEN
             Return(f, ErrUnknownTrigger(trigger))
           ELSE IF ~CanDo(triggers[trigger].source, f.seen) THEN
             Return(f, ErrInvalidTransition(trigger, f.seen))
           ELSE [f EXCEPT !.pc = "condition",
                          !.src = SrcAfterLoop(triggers[trigger].source, f.seen),
                          !.dest = DestOf(triggers, trigger)]]
  /\ last' = NoCall
  /\ UNCHANGED <<triggers, State, dbState, smlog, initial>>

Condition(p, ret) ==
  /\ frames[p].pc = "condition"
  /\ LET f == frames[p]
         conditionFunc == triggers[f.trigger].condition
         g == IF conditionFunc
              THEN [f EXCEPT !.steps = Append(@, "condition"), !.out.condition = ret]
              ELSE f
     IN  /\ (~conditionFunc => ret)
         /\ frames' = [frames EXCEPT ![p] =
               IF ConditionRejects(conditionFunc, ret) THEN Return(g, Nil)
               ELSE [g EXCEPT !.pc = NextStep(f.pc)]]
  /\ UNCHANGED <<triggers, State, dbState, smlog, last, initial>>

Before(p, err) ==
  /\ frames[p].pc = "before"
  /\ LET f == frames[p]
         beforeFunc == triggers[f.trigger].before
         g == IF beforeFunc
              THEN [f EXCEPT !.steps = Append(@, "before"), !.out.before = err]
              ELSE f
     IN  /\ (~beforeFunc => err = Nil)
         /\ frames' = [frames EXCEPT ![p] =
               IF BeforeFails(beforeFunc, err) THEN Return(g, err)
               ELSE [g EXCEPT !.pc = NextStep(f.pc)]]
  /\ UNCHANGED <<triggers, State, dbState, smlog, last, initial>>

\* sm.stater.SetState(dest) on the caller's struct; the row is not yet
\* written.
StaterSetState(p) ==
  /\ frames[p].pc = "setstate"
  /\ LET f == frames[p]
     IN  /\ State' = [State EXCEPT ![p][f.entity] = f.dest]
         /\ frames' = [frames EXCEPT ![p] =
               [f EXCEPT !.steps = Append(@, "SetState"), !.pc = NextStep(f.pc)]]
  /\ UNCHANGED <<triggers, dbState, smlog, last, initial>>

\* tx.Model(sm.stater).Update("state", dest): the update of the row.
Update(p, err) ==
  /\ frames[p].pc = "update"
  /\ LET f == frames[p]
         g == [f EXCEPT !.steps = Append(@, "Update"),
                        !.out.update = err,
                        !.dbBefore = dbState[f.entity]]
     IN  /\ dbState' = UpdateRow(dbState, f.entity, f.dest, err)
         /\ frames' = [frames EXCEPT ![p] =
               IF err # Nil THEN Return(g, err)
               ELSE [g EXCEPT !.pc = NextStep(f.pc)]]
  /\ UNCHANGED <<triggers, State, smlog, last, initial>>

After(p, err) ==
  /\ frames[p].pc = "after"
  /\ LET f == frames[p]
         afterFunc == triggers[f.trigger].after
         g == IF afterFunc
              THEN [f EXCEPT !.steps = Append(@, "after"), !.out.after = err]
              ELSE f
     IN  /\ (~afterFunc => err = Nil)
         /\ frames' = [frames EXCEPT ![p] =
               IF AfterFails(afterFunc, err) THEN Return(g, err)
               ELSE [g EXCEPT !.pc = NextStep(f.pc)]]
  /\ UNCHANGED <<triggers, State, dbState, smlog, last, initial>>

Log(p, err) ==
  /\ frames[p].pc = "log"
  /\ LET f == frames[p]
         logged == LogCall(smlog, f.entity, f.trigger, f.src, f.dest, f.actor, err)
     IN  /\ smlog' = logged.smlog
         /\ frames' = [frames EXCEPT ![p] =
               Return([f EXCEPT !.steps = Append(@, "Create"), !.out.create = err],
                      logged.err)]
  /\ UNCHANGED <<triggers, State, dbState, last, initial>>

\* Do hands its result to caller p, which is free to call again.
Returns(p) ==
  /\ frames[p].pc = "done"
  /\ LET f == frames[p]
     IN  last' = [op |-> "Do", entity |-> f.entity, trigger |-> f.trigger,
                  actor |-> f.actor, out |-> f.out,
                  preState |-> f.seen, preDb |-> f.preDb, preLog |-> f.preLog,
                  err |-> f.err, steps |-> f.steps, result |-> <<>>]
  /\ frames' = [frames EXCEPT ![p] = IdleFrame]
  /\ UNCHANGED <<triggers, State, dbState, smlog, initial>>

\* The Do calls of a single-threaded application: one call at a time, each
\* running statement by statement.
NextCalls ==
  \/ \E e \in EntityIds, t \in TriggerNames, u \in UserIds :
       Quiet /\ Call(Main, e, t, u)
  \/ \E ret \in BOOLEAN : Condition(Main, ret)
  \/ \E err \in HookResults : Before(Main, err)
  \/ StaterSetState(Main)
  \/ \E err \in DbResults : Update(Main, err)
  \/ \E err \in HookResults : After(Main, err)
  \/ \E err \in DbResults : Log(Main, err)
  \/ Returns(Main)

\* An application that calls Do and AvailableTriggers and nothing else.
NextDo ==
  \/ NextCalls
  \/ \E e \in EntityIds, ord \in RangeOrders(DOMAIN triggers) :
       Quiet /\ AvailableTriggers(e, ord)

\* An application that calls Do and also assigns the state itself.
Next ==
  \/ NextCalls
  \/ \E e \in EntityIds, state \in SetStateArgs : Quiet /\ SetState(e, state)

Spec == Init /\ [][Next]_vars

\* Two callers, one call each, their statements interleaved.
NextSteps ==
  \/ \E p \in Procs, e \in EntityIds, t \in TriggerNames, u \in UserIds :
       Call(p, e, t, u)
  \/ \E p \in Procs, ret \in BOOLEAN : Condition(p, ret)
  \/ \E p \in Procs, err \in HookResults : Before(p, err)
  \/ \E p \in Procs : StaterSetState(p)
  \/ \E p \in Procs, err \in DbResults : Update(p, err)
  \/ \E p \in Procs, err \in HookResults : After(p, err)
  \/ \E p \in Procs, err \in DbResults : Log(p, err)

\* One call per caller, on two-trigger tables.
InitConc ==
  /\ triggers \in ConcTables
  /\ dbState \in [EntityIds -> StateNames]
  /\ State = [p \in Procs |-> dbState]
  /\ smlog = <<>>
  /\ last = NoCall
  /\ frames = [p \in Procs |-> IdleFrame]
  /\ initial = dbState

SpecConc == InitConc /\ [][NextSteps]_vars

\* AvailableTriggers alone, over every trigger table.
InitAT ==
  /\ triggers \in AllTriggerTables
  /\ dbState \in [EntityIds -> StateNames]
  /\ State = [p \in Procs |-> dbState]
  /\ smlog = <<>>
  /\ last = NoCall
  /\ frames = [p \in Procs |-> IdleFrame]
  /\ initial = dbState

NextAT ==
  \E e \in EntityIds, ord \in RangeOrders(DOMAIN triggers) :
    AvailableTriggers(e, ord)

SpecAT == InitAT /\ [][NextAT]_vars

\* Do and AvailableTriggers alone, over tables whose dest need not be
\* declared.
InitWide ==
  /\ triggers \in WideTables
  /\ dbState \in [EntityIds -> StateNames]
  /\ State = [p \in Procs |-> dbState]
  /\ smlog = <<>>
  /\ last = NoCall
  /\ frames = [p \in Procs |-> IdleFrame]
  /\ initial = dbState

SpecWide == InitWide /\ [][NextDo]_vars

\* ------------------------------------------------------ Do in a transaction
\* Seen from the committed rows, Do in a transaction is one step: what it
\* writes through the handle shows when the caller commits, or never.
\* The caller runs one Do inside a transaction of its own: when Do returns
\* nil the caller commits what Do wrote through the handle; when Do returns
\* an error the caller rolls back, so the row and the log table are as
\* before the call, and it may reload the struct from the row.  The struct
\* in memory is not part of the transaction.
TxDo(e, trigger, userInfoId, o, reload) ==
  /\ Len(smlog) < MaxLog
  /\ LET r == DoCall(triggers, State[Main][e], dbState[e], smlog, e, trigger,
                      userInfoId, o)
         commit == r.err = Nil
     IN  /\ dbState' = IF commit THEN [dbState EXCEPT ![e] = r.dbState] ELSE dbState
         /\ smlog' = IF commit THEN r.smlog ELSE smlog
         /\ State' = [State EXCEPT ![Main][e] =
                        IF ~commit /\ reload THEN dbState[e] ELSE r.State]
         /\ last' = [op |-> "Do", entity |-> e, trigger |-> trigger,
                     actor |-> userInfoId, out |-> o,
                     preState |-> State[Main][e], preDb |-> dbState[e],
                     preLog |-> smlog, err |-> r.err, steps |-> r.steps, result |-> <<>>]
  /\ UNCHANGED <<triggers, frames, initial>>

\* A caller that keeps using the struct it has after a rollback.
NextTx ==
  \E e \in EntityIds, t \in TriggerNames, u \in UserIds :
    \E o \in ObservableOutcomes(triggers, t, State[Main][e]) : TxDo(e, t, u, o, FALSE)

SpecTx == Init /\ [][NextTx]_vars

\* The same with a caller that reloads the entity after every rollback.
NextReload ==
  \E e \in EntityIds, t \in TriggerNames, u \in UserIds :
    \E o \in ObservableOutcomes(triggers, t, State[Main][e]) : TxDo(e, t, u, o, TRUE)

SpecReload == Init /\ [][NextReload]_vars

\* ------------------------------------------------------------ properties
\* Vocabulary of the properties: the last call, read from `last`.
SourceStates(source) ==
  {SplitSource(source)[i] : i \in 1..Len(SplitSource(source))}

LastDo == last.op = "Do"

LastDeclared == LastDo /\ last.trigger \in DOMAIN triggers

LastEligible ==
  LastDeclared /\ last.preState \in SourceStates(triggers[last.trigger].source)

LastDest == triggers[last.trigger].dest

LastAppended == SubSeq(smlog, Len(last.preLog) + 1, Len(smlog))

LastLogKept ==
  /\ Len(smlog) >= Len(last.preLog)
  /\ SubSeq(smlog, 1, Len(last.preLog)) = last.preLog

LastUntouched ==
  /\ State[Main][last.entity] = last.preState
  /\ dbState[last.entity] = last.preDb
  /\ smlog = last.preLog

Called(step) == \E i \in 1..Len(last.steps) : last.steps[i] = step

\* The last call got past the condition: there is none, or it returned true.
LastPassedCondition ==
  LastEligible /\ (triggers[last.trigger].condition => last.out.condition)

LastPassedBefore ==
  LastPassedCondition /\ (triggers[last.trigger].before => last.out.before = Nil)

LastReachedAfter == LastPassedBefore /\ last.out.update = Nil

\* C1: a Do of a declared trigger from one of its source states, whose
\* condition is absent or true, whose before and after are absent or
\* succeed and whose Update and Create succeed, returns nil, leaves the
\* entity in the trigger's dest in memory and in the database, and grows
\* the log by exactly one record carrying the trigger, the dest, the
\* operator id and the entity's id and type.
C1_SuccessfulDo ==
  (LastReachedAfter
     /\ (triggers[last.trigger].after => last.out.after = Nil)
     /\ last.out.create = Nil)
  => /\ last.err = Nil
     /\ State[Main][last.entity] = LastDest
     /\ dbState[last.entity] = LastDest
     /\ LastLogKept
     /\ Len(LastAppended) = 1
     /\ LastAppended[1].Trigger = last.trigger
     /\ LastAppended[1].Dest = LastDest
     /\ LastAppended[1].OperatorId = last.actor
     /\ LastAppended[1].ObjectId = last.entity
     /\ LastAppended[1].ObjectStruct = StructName(last.entity)

C1_Witness ==
  /\ LastReachedAfter
  /\ triggers[last.trigger].condition
  /\ triggers[last.trigger].after
  /\ last.out.after = Nil
  /\ last.out.create = Nil
  /\ last.entity = 2
  /\ State[Main][last.entity] # last.preState
  /\ Len(smlog) = Len(last.preLog) + 1

\* C2: the Source of the record a successful Do appends is the state the
\* entity held immediately before the call.
C2_SourceIsPriorState ==
  (LastEligible /\ last.err = Nil /\ Len(smlog) = Len(last.preLog) + 1)
  => smlog[Len(smlog)].Source = last.preState

\* C3: a Do of a declared trigger from one of its source states whose
\* condition returns false returns nil, changes neither the in-memory nor
\* the persisted state, calls neither before nor after, issues no Update
\* and appends nothing to the log.
C3_ConditionFalseIsNoOp ==
  (LastEligible /\ triggers[last.trigger].condition /\ ~last.out.condition)
  => /\ last.err = Nil
     /\ LastUntouched
     /\ ~Called("before")
     /\ ~Called("after")
     /\ ~Called("SetState")
     /\ ~Called("Update")
     /\ ~Called("Create")

C3_Witness ==
  /\ LastEligible
  /\ triggers[last.trigger].condition
  /\ ~last.out.condition
  /\ triggers[last.trigger].before
  /\ triggers[last.trigger].after
  /\ LastDest # last.preState
  /\ Called("condition")

\* C4: a Do of a trigger the table does not hold returns an error naming the
\* trigger, changes neither state nor log and calls no function.
C4_UnknownTrigger ==
  (LastDo /\ last.trigger \notin DOMAIN triggers)
  => /\ last.err # Nil
     /\ last.err.format = "can not do trigger: %s"
     /\ last.err.args = <<last.trigger>>
     /\ LastUntouched
     /\ last.steps = <<>>

C4_Witness ==
  /\ LastDo
  /\ last.trigger \notin DOMAIN triggers
  /\ last.trigger = "ship"
  /\ last.err # Nil

\* C5: a Do of a declared trigger whose source states do not contain the
\* current state returns an error carrying the trigger and the current
\* state, changes neither state nor log and calls no function.
C5_InvalidTransition ==
  (LastDeclared /\ ~LastEligible)
  => /\ last.err # Nil
     /\ last.err.format = "can not do trigger: %s, current state: %s"
     /\ last.err.args = <<last.trigger, last.preState>>
     /\ LastUntouched
     /\ last.steps = <<>>

\* A Do on a struct the application has set to an undeclared state: the
\* row and the log are as they were created.
C5_Witness ==
  /\ LastDeclared
  /\ ~LastEligible
  /\ last.preState \in UndeclaredNames
  /\ last.preDb = initial[last.entity]
  /\ smlog = <<>>
  /\ triggers[last.trigger].condition
  /\ triggers[last.trigger].before
  /\ last.err # Nil

\* C6: when before returns an error after lookup, source validation and the
\* condition passed, Do returns that error, changes neither the in-memory
\* nor the persisted state, issues no Update, does not call after and
\* appends nothing to the log.
C6_BeforeFailure ==
  (LastPassedCondition /\ triggers[last.trigger].before /\ last.out.before # Nil)
  => /\ last.err = last.out.before
     /\ LastUntouched
     /\ ~Called("SetState")
     /\ ~Called("Update")
     /\ ~Called("after")
     /\ ~Called("Create")

C6_Witness ==
  /\ LastPassedCondition
  /\ triggers[last.trigger].before
  /\ last.out.before # Nil
  /\ triggers[last.trigger].after
  /\ LastDest # last.preState
  /\ Called("before")

\* C7: when after returns an error, Do returns an error, the entity is
\* already in the trigger's dest in memory and in the database, and the call
\* has appended nothing to the log.
C7_AfterFailure ==
  (LastReachedAfter /\ triggers[last.trigger].after /\ last.out.after # Nil)
  => /\ last.err # Nil
     /\ State[Main][last.entity] = LastDest
     /\ dbState[last.entity] = LastDest
     /\ smlog = last.preLog

C7_Witness ==
  /\ LastReachedAfter
  /\ triggers[last.trigger].after
  /\ last.out.after # Nil
  /\ LastDest # last.preState
  /\ dbState[last.entity] = LastDest
  /\ Called("after")

\* The phase a Do failed in, when a function of the table made it fail.
FailedPhase(call) ==
  IF call.err = Nil THEN "none"
  ELSE IF call.steps # <<>> /\ call.steps[Len(call.steps)] = "before" THEN "before"
  ELSE IF call.steps # <<>> /\ call.steps[Len(call.steps)] = "after" THEN "after"
  ELSE "none"

\* C8: a before failure and an after failure raising the same underlying
\* error return errors the caller can tell apart.
C8_PhaseIdentified ==
  \A p, q \in Procs :
    (/\ frames[p].pc = "done" /\ frames[q].pc = "done"
     /\ FailedPhase(frames[p]) # "none"
     /\ FailedPhase(frames[q]) # "none"
     /\ FailedPhase(frames[p]) # FailedPhase(frames[q]))
    => frames[p].err # frames[q].err

\* The number of entries of an AvailableTriggers result naming a trigger.
Occurrences(result, trigger) ==
  Cardinality({i \in 1..Len(result) : result[i].Trigger = trigger})

\* C9: AvailableTriggers returns exactly the declared triggers whose source
\* states contain the current state, each exactly once.
C9_ExactlyAvailable ==
  last.op = "AvailableTriggers"
  => /\ \A i \in 1..Len(last.result) : last.result[i].Trigger \in DOMAIN triggers
     /\ \A t \in DOMAIN triggers :
          Occurrences(last.result, t) =
            IF last.preState \in SourceStates(triggers[t].source) THEN 1 ELSE 0

\* C10: two AvailableTriggers calls on the same table with the same current
\* state return the same sequence.
C10_DeterministicOrder ==
  [][(/\ last.op = "AvailableTriggers"
      /\ last'.op = "AvailableTriggers"
      /\ last.preState = last'.preState)
     => last.result = last'.result]_vars

\* Every dest of the table is a state States() declares.
DestsDeclared == \A t \in DOMAIN triggers : triggers[t].dest \in StateNames

\* C11 as stated: for every trigger table, every entity's state is a
\* declared state, in memory and in the database.
C11_StateAlwaysValid ==
  \A e \in EntityIds :
    /\ \A p \in Procs : State[p][e] \in StateNames
    /\ dbState[e] \in StateNames

\* C11 amended: when every dest of the table is a declared state, every
\* entity's state is a declared state in memory and in the database; and on
\* any table, a Do that changes the state in memory or in the database
\* writes the dest of the trigger it was called with.
C11_StateValidWhenDestsDeclared ==
  /\ DestsDeclared => C11_StateAlwaysValid
  /\ (LastDo /\ State[Main][last.entity] # last.preState)
       => (LastDeclared /\ State[Main][last.entity] = LastDest)
  /\ (LastDo /\ dbState[last.entity] # last.preDb)
       => (LastDeclared /\ dbState[last.entity] = LastDest)

C11_Witness ==
  /\ DestsDeclared
  /\ LastDeclared
  /\ State[Main][last.entity] # last.preState
  /\ dbState[last.entity] # last.preDb
  /\ Len(triggers[last.trigger].source) > 1

\* Vocabulary of the statement-level properties.
CalledBy(p, step) == \E i \in 1..Len(frames[p].steps) : frames[p].steps[i] = step

\* The records of the log that name entity e.
RecordsOf(e) == SelectSeq(smlog, LAMBDA r : r.ObjectId = e)

\* Callers p and q have both returned from a Do on the same entity that
\* passed source validation against the same state, and every function and
\* handle call they made succeeded.
BothRan(p, q) ==
  /\ p # q
  /\ frames[p].pc = "done" /\ frames[q].pc = "done"
  /\ frames[p].entity = frames[q].entity
  /\ frames[p].seen = frames[q].seen
  /\ CalledBy(p, "Create") /\ CalledBy(q, "Create")
  /\ frames[p].out = AllSucceed /\ frames[q].out = AllSucceed

\* C12: two calls on the same entity that validate against the same state
\* both go through: neither returns an error, each has written its dest and
\* appended its record, and the persisted state is the dest of one of them.
C12_BothCallsGoThrough ==
  \A p, q \in Procs :
    BothRan(p, q)
    => /\ frames[p].err = Nil /\ frames[q].err = Nil
       /\ State[p][frames[p].entity] = frames[p].dest
       /\ State[q][frames[q].entity] = frames[q].dest
       /\ Len(RecordsOf(frames[p].entity)) = 2
       /\ \E i \in 1..2 :
            /\ RecordsOf(frames[p].entity)[i].Trigger = frames[p].trigger
            /\ RecordsOf(frames[p].entity)[i].Dest = frames[p].dest
            /\ RecordsOf(frames[p].entity)[3 - i].Trigger = frames[q].trigger
            /\ RecordsOf(frames[p].entity)[3 - i].Dest = frames[q].dest
       /\ dbState[frames[p].entity] \in {frames[p].dest, frames[q].dest}

\* The lost update: q validated against the state p validated against, p's
\* dest reached the row before q's Update, and q overwrote it with a
\* different dest; both returned nil and both records are in the log.
C12_Witness ==
  \E p, q \in Procs :
    /\ BothRan(p, q)
    /\ frames[p].trigger # frames[q].trigger
    /\ frames[p].dest # frames[q].dest
    /\ frames[p].dest # frames[p].seen
    /\ frames[q].dbBefore = frames[p].dest
    /\ frames[q].dbBefore # frames[q].seen
    /\ dbState[frames[p].entity] = frames[q].dest
    /\ frames[p].err = Nil /\ frames[q].err = Nil
    /\ Len(RecordsOf(frames[p].entity)) = 2

\* Caller p has returned and no other caller has called Do on its entity.
RanAlone(p) ==
  /\ frames[p].pc = "done"
  /\ \A q \in Procs \ {p} : frames[q].entity # frames[p].entity

\* What the call of p returns and leaves behind when it is the only call:
\* Do run in one piece from the state p loaded, with the results p drew.
AloneResult(p) ==
  DoCall(triggers, frames[p].seen, initial[frames[p].entity], <<>>,
         frames[p].entity, frames[p].trigger, frames[p].actor, frames[p].out)

\* C13: calls on distinct entities do not interfere: whatever the
\* interleaving, a call that no other call shares its entity with returns
\* the error, leaves the in-memory state, the row and the entity's records,
\* and makes the calls, that it would running alone; and every record in
\* the log names the entity and trigger of a call that appended it.
C13_DistinctEntitiesIndependent ==
  /\ \A p \in Procs :
       RanAlone(p)
       => /\ frames[p].seen = initial[frames[p].entity]
          /\ frames[p].err = AloneResult(p).err
          /\ State[p][frames[p].entity] = AloneResult(p).State
          /\ dbState[frames[p].entity] = AloneResult(p).dbState
          /\ RecordsOf(frames[p].entity) = AloneResult(p).smlog
          /\ frames[p].steps = AloneResult(p).steps
  /\ \A i \in 1..Len(smlog) :
       \E p \in Procs :
         /\ frames[p].entity = smlog[i].ObjectId
         /\ frames[p].trigger = smlog[i].Trigger
         /\ CalledBy(p, "Create")

\* Two calls on different entities, interleaved (the second wrote its row
\* and its record before the first appended its own), both changing state.
C13_Witness ==
  \E p, q \in Procs :
    /\ RanAlone(p) /\ RanAlone(q)
    /\ frames[p].entity # frames[q].entity
    /\ frames[p].trigger # frames[q].trigger
    /\ dbState[frames[p].entity] # initial[frames[p].entity]
    /\ dbState[frames[q].entity] # initial[frames[q].entity]
    /\ Len(smlog) = 2
    /\ smlog[1].ObjectId = frames[q].entity
    /\ smlog[2].ObjectId = frames[p].entity

\* C14: when the update of the state column fails, Do returns that error,
\* the in-memory state is the trigger's dest and is not put back, the row
\* and the log are unchanged, and neither after nor Create is called.
C14_UpdateFailure ==
  (LastPassedBefore /\ last.out.update # Nil)
  => /\ last.err = last.out.update
     /\ last.err # Nil
     /\ State[Main][last.entity] = LastDest
     /\ dbState[last.entity] = last.preDb
     /\ smlog = last.preLog
     /\ Called("SetState")
     /\ Called("Update")
     /\ ~Called("after")
     /\ ~Called("Create")

C14_Witness ==
  /\ LastPassedBefore
  /\ last.out.update # Nil
  /\ triggers[last.trigger].after
  /\ LastDest # last.preState
  /\ State[Main][last.entity] # dbState[last.entity]
  /\ Called("Update")

\* The log lg is the log pre, or pre with one record appended.
GrownByAtMostOne(pre, lg) ==
  /\ Len(lg) >= Len(pre)
  /\ Len(lg) <= Len(pre) + 1
  /\ SubSeq(lg, 1, Len(pre)) = pre

\* C15: the log is append-only: every step of the engine leaves the log it
\* found as a prefix of the log it leaves, and adds at most one record; and
\* a single Do call, at every statement of it and when it has returned,
\* has left the log it found as a prefix, has appended at most one record
\* and has called Create at most once.
C15_AppendOnly ==
  [][/\ GrownByAtMostOne(smlog, smlog')
     /\ \A p \in Procs :
          frames'[p].pc # "idle"
          => /\ GrownByAtMostOne(frames'[p].preLog, smlog')
             /\ Cardinality({i \in 1..Len(frames'[p].steps) :
                               frames'[p].steps[i] = "Create"}) <= 1
     /\ (last'.op = "Do"
          => /\ GrownByAtMostOne(last'.preLog, smlog')
             /\ Cardinality({i \in 1..Len(last'.steps) :
                               last'.steps[i] = "Create"}) <= 1)]_vars

C15_Witness ==
  /\ last.op = "Do"
  /\ Len(smlog) = 2
  /\ Len(last.preLog) = 1
  /\ smlog[1] # smlog[2]

\* The fixed sequence of the calls of one Do on a trigger entry, the
\* functions the entry does not hold left out.
FixedSequence(cfg) ==
  (IF cfg.condition THEN <<"condition">> ELSE <<>>)
    \o (IF cfg.before THEN <<"before">> ELSE <<>>)
    \o <<"SetState", "Update">>
    \o (IF cfg.after THEN <<"after">> ELSE <<>>)
    \o <<"Create">>

IsPrefix(s, t) == Len(s) <= Len(t) /\ SubSeq(t, 1, Len(s)) = s

\* C16: at every point of a Do call the calls it has made are a prefix of
\* the fixed sequence, none made twice; the struct holds the state the call
\* validated until SetState, so before sees the pre-transition state; after
\* is called only after a successful Update, and Create only after a
\* successful Update and a successful or absent after.
C16_FixedStepOrder ==
  \A p \in Procs :
    frames[p].pc # "idle"
    => /\ (frames[p].trigger \notin DOMAIN triggers => frames[p].steps = <<>>)
       /\ (frames[p].trigger \in DOMAIN triggers
            => IsPrefix(frames[p].steps, FixedSequence(triggers[frames[p].trigger])))
       /\ \A i, j \in 1..Len(frames[p].steps) :
            frames[p].steps[i] = frames[p].steps[j] => i = j
       /\ (~CalledBy(p, "SetState") => State[p][frames[p].entity] = frames[p].seen)
       /\ (CalledBy(p, "after")
            => CalledBy(p, "Update") /\ frames[p].out.update = Nil)
       /\ (CalledBy(p, "Create")
            => /\ CalledBy(p, "Update") /\ frames[p].out.update = Nil
               /\ (triggers[frames[p].trigger].after
                    => CalledBy(p, "after") /\ frames[p].out.after = Nil))

\* A call with condition, before and after set that ran to its end.
C16_Witness ==
  \E p \in Procs :
    /\ frames[p].pc = "done"
    /\ frames[p].steps =
         <<"condition", "before", "SetState", "Update", "after", "Create">>
    /\ State[p][frames[p].entity] # frames[p].seen

\* The last Do returned nil after issuing its Update, so the caller
\* committed an update of the state column.
LastCommittedUpdate == LastDo /\ last.err = Nil /\ Called("Update")

\* C17 as stated: in the committed state after a transaction, the
\* persisted state of the entity has changed if and only if exactly one
\* record of the entity was committed with it.
C17_ChangeIffOneRecord ==
  LastDo
  => /\ LastLogKept
     /\ (dbState[last.entity] # last.preDb) <=> (Len(LastAppended) = 1)

\* C17 amended: a transaction commits an update of the state column (to the
\* trigger's dest, which may be the value the row already held) if and only
\* if it commits exactly one record of the entity; a transaction that
\* commits no update leaves row and log as they were, and a failure of
\* after or of Create leaves neither.
C17_UpdateIffOneRecord ==
  LastDo
  => /\ LastLogKept
     /\ Len(LastAppended) <= 1
     /\ LastCommittedUpdate <=> (Len(LastAppended) = 1)
     /\ (LastCommittedUpdate
          => /\ dbState[last.entity] = LastDest
             /\ LastAppended[1].ObjectId = last.entity)
     /\ (~LastCommittedUpdate
          => dbState[last.entity] = last.preDb /\ smlog = last.preLog)
     /\ ((last.out.after # Nil \/ last.out.create # Nil)
          => dbState[last.entity] = last.preDb /\ smlog = last.preLog)

\* A rolled-back after failure, followed by nothing else: the row and the
\* log are as before although Do had written the row through the handle.
C17_Witness ==
  /\ LastReachedAfter
  /\ last.out.after # Nil
  /\ Called("Update")
  /\ LastDest # last.preDb
  /\ dbState[last.entity] = last.preDb
  /\ smlog = last.preLog
  /\ Len(smlog) = 1

\* The number of times the last Do made a call.
TimesCalled(step) ==
  Cardinality({i \in 1..Len(last.steps) : last.steps[i] = step})

\* C18: when Create fails at the end of Do, Do returns that error, having
\* called Create once; no record is appended; the state is the trigger's
\* dest in memory and in the row, and after, if set, has run: nothing of it
\* is undone.
C18_InsertFailure ==
  (LastReachedAfter
     /\ (triggers[last.trigger].after => last.out.after = Nil)
     /\ last.out.create # Nil)
  => /\ last.err = last.out.create
     /\ last.err # Nil
     /\ smlog = last.preLog
     /\ TimesCalled("Create") = 1
     /\ TimesCalled("Update") = 1
     /\ State[Main][last.entity] = LastDest
     /\ dbState[last.entity] = LastDest
     /\ (triggers[last.trigger].after => TimesCalled("after") = 1)

C18_Witness ==
  /\ LastReachedAfter
  /\ triggers[last.trigger].after
  /\ last.out.after = Nil
  /\ last.out.create # Nil
  /\ LastDest # last.preDb
  /\ dbState[last.entity] = LastDest
  /\ Called("after")
  /\ smlog = last.preLog

\* The trigger names an AvailableTriggers result lists.
Listed(result) == {result[i].Trigger : i \in 1..Len(result)}

\* A Do that got past lookup and source validation.
PassedValidation(call) ==
  /\ call.err.format # "can not do trigger: %s"
  /\ call.err.format # "can not do trigger: %s, current state: %s"

\* C19: AvailableTriggers and Do agree: whatever the order of the range, a
\* Do passes lookup and source validation if and only if AvailableTriggers
\* on the state the Do started from lists its trigger.
C19_ListedIffDoable ==
  LastDo
  => \A ord \in RangeOrders(DOMAIN triggers) :
       (last.trigger \in
          Listed(AvailableTriggersIn(triggers, last.entity, last.preState, ord)))
       <=> PassedValidation(last)

\* A Do that passed validation on a trigger whose source names two
\* different states, the current one first.
C19_Witness ==
  /\ LastEligible
  /\ PassedValidation(last)
  /\ Len(triggers[last.trigger].source) > 1
  /\ SrcAfterLoop(triggers[last.trigger].source, last.preState) # last.preState
  /\ \A ord \in RangeOrders(DOMAIN triggers) :
       Listed(AvailableTriggersIn(triggers, last.entity, last.preState, ord))
         = {last.trigger}

\* C20: with sequential calls, each rolled back and the entity reloaded on
\* error, the records of every entity form a chain: the first starts from
\* the entity's initial state, each later one starts where the previous
\* one ended, and the last ends in the persisted state.
C20_AuditChain ==
  \A e \in EntityIds :
    RecordsOf(e) # <<>>
    => /\ RecordsOf(e)[1].Source = initial[e]
       /\ \A i \in 1..(Len(RecordsOf(e)) - 1) :
            RecordsOf(e)[i + 1].Source = RecordsOf(e)[i].Dest
       /\ RecordsOf(e)[Len(RecordsOf(e))].Dest = dbState[e]
====
